---- MODULE Spec2Model ----
(***************************************************************************)
(* A model of the analytical core of cosmic_web:                           *)
(*   - geometry.py : point-to-segment / point-to-polyline projection and   *)
(*                   cumulative arc lengths;                               *)
(*   - jackknife.py: grid region assignment and the delete-one-region      *)
(*                   jackknife of the mean.                                *)
(* Every function is a pure function of its arguments.  A behaviour is one *)
(* call: Init draws the arguments, the actions run the function's body,    *)
(* one action per straight-line block or loop iteration, and the call ends *)
(* in pc = "returned" (ret holds the value) or pc = "raised" (error holds  *)
(* the ValueError's message and ret holds nothing).                        *)
(*                                                                         *)
(* Numbers are exact: a float is modelled by the real number it stands     *)
(* for.  A real is a record [num, den, rt]: the rational num/den when rt   *)
(* is FALSE, and the non-negative square root of num/den when rt is TRUE   *)
(* (only for a num/den that is not the square of a rational, so each real  *)
(* has one representation).  den = 0 encodes the IEEE specials: 1/0 is     *)
(* +inf and 0/0 is nan.                                                    *)
(***************************************************************************)
EXTENDS Integers, Sequences, FiniteSets, TLC

VARIABLES
    fn,     \* the function being called
    pc,     \* position in its body: a label, "returned" or "raised"
    jk,     \* frame of compute_jackknife_mean (arguments and locals)
    grid,   \* frame of assign_jackknife_grid_from_xyz
    seg,    \* frame of project_point_onto_segment
    poly,   \* frame of project_point_onto_polyline
    ret,    \* the value returned (None until the call returns)
    error,  \* the message of the ValueError raised ("" when none)
    call,   \* frame of a compute_arc_lengths or batch projection call
    heap,   \* the arrays that outlive a call: address -> rows
    fil     \* a caller's session with a Filament: its references and objects

vars == <<fn, pc, jk, grid, seg, poly, ret, error, call, heap, fil>>

\* the variables of the Filament session, untouched by the single calls
session == <<call, heap, fil>>

(***************************************************************************)
(* Bounds of the model.                                                    *)
(***************************************************************************)
MaxN == 3          \* longest values / region_ids array of a jackknife call
MaxR == 3          \* largest n_regions of a jackknife call
MaxPts == 3        \* most points of a coordinate array given to the grid
MaxRegions == 5    \* largest n_regions asked of the grid
MaxVerts == 3      \* most vertices of a polyline

\* the scalar measurements a values array is drawn from
JkValues == {1, 3}

\* the vertices a polyline is drawn from (all pairwise distances are integers)
PolyVertices == {<<0, 0, 0>>, <<3, 0, 0>>, <<6, 0, 0>>, <<3, 4, 0>>}

\* the points projected onto a polyline
PolyPoints ==
    {<<x, y, 0>> : x \in {-1, 1, 3, 4, 7}, y \in {-2, 0, 4}}
        \cup {<<1, 0, 2>>, <<4, -2, 2>>, <<3, 4, 2>>}

\* the points and the endpoints of a call of the segment routine
SegPoints == {<<x, y, z>> : x \in {-1, 1, 2}, y \in {0, 3}, z \in {0, 1}}
SegEnds == {<<x, y, z>> : x \in {0, 2}, y \in {0, 1}, z \in {0, 3}}

\* the points a coordinate array is drawn from
GridPoints == {<<0, 0, 0>>, <<3, 1, 0>>, <<1, 3, 2>>, <<-2, 3, 3>>}

(***************************************************************************)
(* Exact arithmetic.                                                       *)
(***************************************************************************)
Abs(x) == IF x < 0 THEN -x ELSE x

RECURSIVE GCD(_, _)
GCD(a, b) == IF b = 0 THEN a ELSE GCD(b, a % b)

\* the rational n/d, d # 0, in lowest terms with a positive denominator
Rat(n, d) ==
    LET g == GCD(Abs(n), Abs(d))
        s == IF d < 0 THEN -1 ELSE 1
    IN  [num |-> s * (n \div g), den |-> s * (d \div g), rt |-> FALSE]

FromInt(n) == [num |-> n, den |-> 1, rt |-> FALSE]
Zero == FromInt(0)
One == FromInt(1)
Inf == [num |-> 1, den |-> 0, rt |-> FALSE]
NaN == [num |-> 0, den |-> 0, rt |-> FALSE]

IsFinite(a) == a.den # 0

\* an operation on nan gives nan, and otherwise one on an infinity an infinity
Special(a, b) == IF a = NaN \/ b = NaN THEN NaN ELSE Inf

Add(a, b) ==
    IF ~IsFinite(a) \/ ~IsFinite(b) THEN Special(a, b)
    ELSE LET g == GCD(a.den, b.den)
             l == (a.den \div g) * b.den
         IN  Rat(a.num * (l \div a.den) + b.num * (l \div b.den), l)

Neg(a) == [a EXCEPT !.num = -a.num]

Sub(a, b) == Add(a, Neg(b))

Mul(a, b) ==
    IF ~IsFinite(a) \/ ~IsFinite(b) THEN Special(a, b)
    ELSE LET g1 == GCD(Abs(a.num), b.den)
             g2 == GCD(Abs(b.num), a.den)
         IN  Rat((a.num \div g1) * (b.num \div g2), (a.den \div g2) * (b.den \div g1))

\* float division: x/0 is nan for x = 0 and an infinity otherwise
Div(a, b) ==
    IF ~IsFinite(a) \/ ~IsFinite(b) THEN NaN
    ELSE IF b.num = 0
    THEN IF a.num = 0 THEN NaN ELSE Inf
    ELSE Mul(a, Rat(b.den, b.num))

\* a < b, a <= b for finite rationals
Lt(a, b) == a.num * b.den < b.num * a.den
Le(a, b) == a.num * b.den <= b.num * a.den

\* floor(sqrt(n)) of a natural number
ISqrt(n) == CHOOSE r \in 0..n : r * r <= n /\ (r + 1) * (r + 1) > n

IsSquare(n) == ISqrt(n) * ISqrt(n) = n

\* np.sqrt of a non-negative rational
Sqrt(a) ==
    IF ~IsFinite(a) THEN a
    ELSE IF IsSquare(a.num) /\ IsSquare(a.den)
    THEN Rat(ISqrt(a.num), ISqrt(a.den))
    ELSE [a EXCEPT !.rt = TRUE]

\* the square of a real (of either representation)
Sq(x) == IF ~IsFinite(x) THEN x ELSE IF x.rt THEN [x EXCEPT !.rt = FALSE] ELSE Mul(x, x)

\* x < y for non-negative reals, +inf included
LtNN(x, y) ==
    IF ~IsFinite(y) THEN IsFinite(x)
    ELSE IsFinite(x) /\ Lt(Sq(x), Sq(y))

RECURSIVE SumSeq(_)
SumSeq(s) == IF s = <<>> THEN Zero ELSE Add(Head(s), SumSeq(Tail(s)))

\* np.mean of a 1-D array: nan for the empty array
Mean(s) == Div(SumSeq(s), FromInt(Len(s)))

None == [none |-> TRUE]

(***************************************************************************)
(* jackknife.py: compute_jackknife_mean                                    *)
(***************************************************************************)
\* vals[mask] for mask = (region_ids != k)
RECURSIVE MaskedValues(_, _, _)
MaskedValues(vals, region_ids, k) ==
    IF vals = <<>> THEN <<>>
    ELSE (IF Head(region_ids) # k THEN <<Head(vals)>> ELSE <<>>)
         \o MaskedValues(Tail(vals), Tail(region_ids), k)

\* a variant of AnyMask that never reports an empty leave-one-out sample
AnyMask_NoCheck(region_ids, k) == TRUE

\* np.any(region_ids != k)
AnyMask(region_ids, k) == \E j \in 1..Len(region_ids) : region_ids[j] # k

\* (theta_k - theta_bar) ** 2, elementwise
SqDevs(theta_k, theta_bar) ==
    [j \in 1..Len(theta_k) |-> Sq(Sub(theta_k[j], theta_bar))]

\* a variant of ThetaBar that takes the first leave-one-out mean for their mean
ThetaBar_First(theta_k) == Head(theta_k)

ThetaBar(theta_k) == Mean(theta_k)

\* a variant of Variance that divides the sum of squares by R
Variance_OverR(theta_k, theta_bar, R) ==
    Mul(Rat(1, R), SumSeq(SqDevs(theta_k, theta_bar)))

Variance(theta_k, theta_bar, R) ==
    Mul(Rat(R - 1, R), SumSeq(SqDevs(theta_k, theta_bar)))

Stderr(variance) == Sqrt(variance)

JackknifeStats(theta_full, theta_k, R) ==
    LET theta_bar == ThetaBar(theta_k)
        variance == Variance(theta_k, theta_bar, R)
    IN  [theta_full |-> theta_full,
         theta_jackknife |-> theta_bar,
         variance |-> variance,
         stderr |-> Stderr(variance)]

SeqsUpTo(S, n) == UNION {[1..m -> S] : m \in 0..n}

IdleFrame == [idle |-> TRUE]

JkInit ==
    /\ fn = "compute_jackknife_mean"
    /\ pc = "entry"
    /\ \E values \in SeqsUpTo({FromInt(x) : x \in JkValues}, MaxN),
          region_ids \in SeqsUpTo(0..(MaxR - 1), MaxN),
          n_regions \in 0..MaxR :
           jk = [values |-> values,
                 assignment |-> [region_ids |-> region_ids, n_regions |-> n_regions],
                 theta_full |-> None,
                 theta_k |-> <<>>,
                 k |-> 0]
    /\ grid = IdleFrame /\ seg = IdleFrame /\ poly = IdleFrame
    /\ ret = None
    /\ error = ""
    /\ call = IdleFrame /\ heap = <<>> /\ fil = IdleFrame

Raise(msg) ==
    /\ pc' = "raised"
    /\ error' = msg
    /\ ret' = None

\* the variant of TooFewRegions that lets a single region through
TooFewRegions_AllowOne(R) == R <= 0

\* line 149: R <= 1
TooFewRegions(R) == R <= 1

\* lines 141-154: argument checks, theta_full, the empty theta_k array
JkEntry ==
    /\ fn = "compute_jackknife_mean" /\ pc = "entry"
    /\ IF Len(jk.assignment.region_ids) # Len(jk.values)
       THEN Raise("values and region_ids must have the same length") /\ UNCHANGED jk
       ELSE IF TooFewRegions(jk.assignment.n_regions)
       THEN Raise("at least two jackknife regions are required") /\ UNCHANGED jk
       ELSE /\ jk' = [jk EXCEPT !.theta_full = Mean(jk.values), !.theta_k = <<>>, !.k = 0]
            /\ pc' = "loop"
            /\ UNCHANGED <<ret, error>>
    /\ UNCHANGED <<fn, grid, seg, poly>>
    /\ UNCHANGED session

\* lines 155-159: one iteration of `for k in range(R)`
JkLoop ==
    /\ fn = "compute_jackknife_mean" /\ pc = "loop"
    /\ jk.k < jk.assignment.n_regions
    /\ IF ~AnyMask(jk.assignment.region_ids, jk.k)
       THEN Raise("region k is empty; cannot form jackknife sample") /\ UNCHANGED jk
       ELSE /\ jk' = [jk EXCEPT
                        !.theta_k = Append(@, Mean(MaskedValues(jk.values,
                                                   jk.assignment.region_ids, jk.k))),
                        !.k = @ + 1]
            /\ UNCHANGED <<pc, ret, error>>
    /\ UNCHANGED <<fn, grid, seg, poly>>
    /\ UNCHANGED session

\* lines 161-170: theta_bar, variance, stderr and the returned JackknifeStats
JkReturn ==
    /\ fn = "compute_jackknife_mean" /\ pc = "loop"
    /\ jk.k = jk.assignment.n_regions
    /\ ret' = JackknifeStats(jk.theta_full, jk.theta_k, jk.assignment.n_regions)
    /\ pc' = "returned"
    /\ UNCHANGED <<fn, jk, grid, seg, poly, error>>
    /\ UNCHANGED session

JkNext == JkEntry \/ JkLoop \/ JkReturn

SpecJackknife == JkInit /\ [][JkNext]_vars

(***************************************************************************)
(* Properties of compute_jackknife_mean.                                   *)
(***************************************************************************)
JkReturned == fn = "compute_jackknife_mean" /\ pc = "returned"
JkRaised == fn = "compute_jackknife_mean" /\ pc = "raised"
JkIds == jk.assignment.region_ids
JkR == jk.assignment.n_regions
JkSameLength == Len(JkIds) = Len(jk.values)

\* the points of region k, and the points left when region k is excluded
RegionMembers(k) == {j \in 1..Len(JkIds) : JkIds[j] = k}
LeftOut(k) == {j \in 1..Len(JkIds) : JkIds[j] # k}

RECURSIVE SumOver(_)
SumOver(S) ==
    IF S = {} THEN Zero
    ELSE LET j == CHOOSE x \in S : TRUE
         IN  Add(jk.values[j], SumOver(S \ {j}))

\* the mean of the values whose region id differs from k
LeaveOneOutMean(k) == Div(SumOver(LeftOut(k)), FromInt(Cardinality(LeftOut(k))))

RECURSIVE SumTo(_, _)
SumTo(F(_), n) == IF n = 0 THEN Zero ELSE Add(F(n - 1), SumTo(F, n - 1))

\* a valid partition: every id in [0, R-1] and every region with a point
ValidPartition ==
    /\ JkSameLength
    /\ JkR >= 2
    /\ \A j \in 1..Len(JkIds) : JkIds[j] \in 0..(JkR - 1)
    /\ \A k \in 0..(JkR - 1) : RegionMembers(k) # {}

EqualRegionSizes ==
    \A k \in 0..(JkR - 1) :
        Cardinality(RegionMembers(k)) = Cardinality(RegionMembers(0))

\* C1 as stated: for every partition into R >= 2 non-empty regions of any
\* sizes, the returned theta_jackknife equals theta_full.
C1_MeanIdentityAnySizes ==
    (JkReturned /\ ValidPartition) => ret.theta_jackknife = ret.theta_full

\* C1, amended: the returned theta_jackknife is the mean of the R
\* leave-one-region-out means, and it equals theta_full (the mean of all
\* values) when the R >= 2 non-empty regions all have the same number of
\* points.
C1_MeanIdentityEqualSizes ==
    JkReturned =>
        /\ ret.theta_full = Div(SumOver(1..Len(jk.values)), FromInt(Len(jk.values)))
        /\ Mul(FromInt(JkR), ret.theta_jackknife) = SumTo(LeaveOneOutMean, JkR)
        /\ (ValidPartition /\ EqualRegionSizes)
               => ret.theta_jackknife = ret.theta_full

\* a call on equal-sized regions whose leave-one-out means differ has returned
C1_Witness ==
    /\ JkReturned /\ ValidPartition /\ EqualRegionSizes
    /\ \E a, b \in 0..(JkR - 1) : LeaveOneOutMean(a) # LeaveOneOutMean(b)

\* C2: the call fails whenever some region id k in [0, R-1] has no point
\* assigned to it: it never returns a JackknifeStats on such an assignment
\* (here for assignments whose ids all lie in [0, R-1]).
C2_EmptyRegionFails ==
    (/\ \A j \in 1..Len(JkIds) : JkIds[j] \in 0..(JkR - 1)
     /\ \E k \in 0..(JkR - 1) : RegionMembers(k) = {}) => ~JkReturned

\* C3: when excluding some region k in [0, R-1] leaves no value (one region
\* holds all the data, or there is no data), the call ends in an error and
\* returns no JackknifeStats: the call is never at its return, every state
\* short of the error has a step to take, and the only end is the error.
C3_AllDataInOneRegionFails ==
    (fn = "compute_jackknife_mean" /\ \E k \in 0..(JkR - 1) : LeftOut(k) = {}) =>
        /\ pc \in {"entry", "loop", "raised"}
        /\ ret = None
        /\ pc = "loop" => jk.k < JkR
        /\ pc = "raised" => error # ""

\* the loop has raised on a region that holds all of a non-empty sample
C3_Witness ==
    /\ JkRaised /\ JkSameLength /\ JkR >= 2 /\ Len(jk.values) >= 1
    /\ error = "region k is empty; cannot form jackknife sample"
    /\ LeftOut(jk.k) = {}

NonNegative(x) == IsFinite(x) /\ (x.rt \/ x.num >= 0)

SqDevOf(k) == Sq(Sub(LeaveOneOutMean(k), ret.theta_jackknife))

\* C4: on success variance = (R-1)/R * sum_k (theta_k - theta_jackknife)^2
\* with theta_k the mean of the values whose region id differs from k,
\* variance >= 0, and stderr is the non-negative root of variance.
C4_VarianceFormula ==
    JkReturned =>
        /\ ret.variance = Div(Mul(FromInt(JkR - 1), SumTo(SqDevOf, JkR)), FromInt(JkR))
        /\ NonNegative(ret.variance) /\ ~ret.variance.rt
        /\ NonNegative(ret.stderr)
        /\ Sq(ret.stderr) = ret.variance

\* a call with three regions has returned a positive variance
C4_Witness ==
    JkReturned /\ JkR >= 3 /\ Lt(Zero, ret.variance)

\* C15: the call fails, returning no JackknifeStats, whenever n_regions < 2
\* or the numbers of values and of region ids differ, and it does so before
\* any leave-one-out estimate (or theta_full) is computed.
C15_ArgumentChecksFirst ==
    (fn = "compute_jackknife_mean" /\ (JkR < 2 \/ ~JkSameLength)) =>
        /\ pc \in {"entry", "raised"}
        /\ ret = None
        /\ jk.theta_k = <<>> /\ jk.theta_full = None
        /\ pc = "raised" =>
               error = (IF ~JkSameLength
                        THEN "values and region_ids must have the same length"
                        ELSE "at least two jackknife regions are required")

\* a call with one region, on arrays of equal non-zero length, has raised
C15_Witness ==
    /\ JkRaised /\ JkR = 1 /\ JkSameLength /\ Len(jk.values) >= 1
    /\ error = "at least two jackknife regions are required"

(***************************************************************************)
(* jackknife.py: assign_jackknife_grid_from_xyz                            *)
(***************************************************************************)
\* float -> int conversion of astype(int): truncation toward zero
Trunc(a) == IF a.num >= 0 THEN a.num \div a.den ELSE -((-a.num) \div a.den)

\* np.ceil of a finite rational, as an integer
Ceil(a) == -((-a.num) \div a.den)

\* np.clip(i, lo, hi)
Clip(i, lo, hi) == IF i < lo THEN lo ELSE IF i > hi THEN hi ELSE i

MinInt(a, b) == IF a < b THEN a ELSE b

\* np.min, np.max of a non-empty 1-D array of finite rationals
MinOf(s) == CHOOSE m \in {s[j] : j \in 1..Len(s)} : \A j \in 1..Len(s) : Le(m, s[j])
MaxOf(s) == CHOOSE m \in {s[j] : j \in 1..Len(s)} : \A j \in 1..Len(s) : Le(s[j], m)

\* the variant of Column that reads the axis after the one asked for
Column_NextAxis(coords, ax) == [j \in 1..Len(coords) |-> coords[j][((ax + 1) % 3) + 1]]

\* coords[:, ax], with the 0-based axis ax
Column(coords, ax) == [j \in 1..Len(coords) |-> coords[j][ax + 1]]

\* np.asarray(coords_xyz, dtype=float)
AsFloatArray(rows) == [j \in 1..Len(rows) |-> [c \in 1..Len(rows[j]) |-> FromInt(rows[j][c])]]

\* the variant of GridNy that rounds n_regions / nx down
GridNy_Floor(n_regions) == n_regions \div ISqrt(n_regions)

\* lines 87-88: the grid dimensions
GridNx(n_regions) == ISqrt(n_regions)
GridNy(n_regions) == Ceil(Div(FromInt(n_regions), FromInt(GridNx(n_regions))))

\* lines 91-98: the upper end of an axis' range, widened when the range is empty
WidenedMax(lo, hi) == IF hi = lo THEN Add(lo, One) ELSE hi

\* lines 101-105: the cell index of coordinate x on an axis cut into n cells
CellIndex(x, lo, hi, n) ==
    Clip(Trunc(Mul(Div(Sub(x, lo), Sub(hi, lo)), FromInt(n))), 0, n - 1)

\* the variant of FlatRegionId without the final merge of the excess cells
FlatRegionId_NoMerge(ix, iy, nx, n_regions) == ix + nx * iy

\* lines 107-110: the flat region id of cell (ix, iy)
FlatRegionId(ix, iy, nx, n_regions) == MinInt(ix + nx * iy, n_regions - 1)

\* lines 83-110: region_ids of all points
GridRegionIds(coords, n_regions, ax0, ax1) ==
    LET x == Column(coords, ax0)
        y == Column(coords, ax1)
        nx == GridNx(n_regions)
        ny == GridNy(n_regions)
        x_min == MinOf(x)
        x_max == WidenedMax(x_min, MaxOf(x))
        y_min == MinOf(y)
        y_max == WidenedMax(y_min, MaxOf(y))
    IN  [j \in 1..Len(coords) |->
            FlatRegionId(CellIndex(x[j], x_min, x_max, nx),
                         CellIndex(y[j], y_min, y_max, ny), nx, n_regions)]

\* a coordinate array of up to MaxPts rows, all of ncols columns
TruncateRows(rows, ncols) == [j \in 1..Len(rows) |-> SubSeq(rows[j], 1, ncols)]

GridInit ==
    /\ fn = "assign_jackknife_grid_from_xyz"
    /\ pc = "entry"
    /\ \E rows \in SeqsUpTo(GridPoints, MaxPts),
          ncols \in {2, 3},
          n_regions \in 0..MaxRegions,
          ax0 \in 0..3, ax1 \in 0..3 :
           grid = [coords_xyz |-> TruncateRows(rows, ncols),
                   ncols |-> ncols,
                   n_regions |-> n_regions,
                   axes |-> <<ax0, ax1>>,
                   coords |-> None]
    /\ jk = IdleFrame /\ seg = IdleFrame /\ poly = IdleFrame
    /\ ret = None
    /\ error = ""
    /\ call = IdleFrame /\ heap = <<>> /\ fil = IdleFrame

\* the variant of SameAxes that never finds the two axes equal
SameAxes_Never(ax0, ax1) == FALSE

\* line 80: ax0 == ax1
SameAxes(ax0, ax1) == ax0 = ax1

\* lines 71-81: the argument checks
GridEntry ==
    /\ fn = "assign_jackknife_grid_from_xyz" /\ pc = "entry"
    /\ IF grid.ncols # 3
       THEN Raise("coords_xyz must have shape (N, 3)") /\ UNCHANGED grid
       ELSE IF grid.n_regions <= 0
       THEN Raise("n_regions must be positive") /\ UNCHANGED grid
       ELSE IF grid.axes[1] \notin {0, 1, 2} \/ grid.axes[2] \notin {0, 1, 2}
       THEN Raise("axes must be a tuple of two integers in {0,1,2}") /\ UNCHANGED grid
       ELSE IF SameAxes(grid.axes[1], grid.axes[2])
       THEN Raise("axes must be distinct") /\ UNCHANGED grid
       ELSE /\ grid' = [grid EXCEPT !.coords = AsFloatArray(grid.coords_xyz)]
            /\ pc' = "assign"
            /\ UNCHANGED <<ret, error>>
    /\ UNCHANGED <<fn, jk, seg, poly>>
    /\ UNCHANGED session

\* lines 83-112: the grid, the cell of every point, the returned assignment;
\* np.min of an array with no rows raises ValueError
GridAssign ==
    /\ fn = "assign_jackknife_grid_from_xyz" /\ pc = "assign"
    /\ IF Len(grid.coords) = 0
       THEN Raise("zero-size array to reduction operation minimum which has no identity")
       ELSE /\ ret' = [region_ids |-> GridRegionIds(grid.coords, grid.n_regions,
                                                    grid.axes[1], grid.axes[2]),
                       n_regions |-> grid.n_regions]
            /\ pc' = "returned"
            /\ UNCHANGED error
    /\ UNCHANGED <<fn, jk, grid, seg, poly>>
    /\ UNCHANGED session

GridNext == GridEntry \/ GridAssign

SpecGrid == GridInit /\ [][GridNext]_vars

GridReturned == fn = "assign_jackknife_grid_from_xyz" /\ pc = "returned"

\* C5: for N >= 1 points, n_regions >= 1 and two distinct axes the call
\* returns an assignment whose n_regions is the requested value and whose
\* region_ids has N entries, each an integer in [0, n_regions-1].
C5_RegionIdsInRange ==
    /\ (/\ fn = "assign_jackknife_grid_from_xyz"
        /\ grid.ncols = 3 /\ Len(grid.coords_xyz) >= 1 /\ grid.n_regions >= 1
        /\ grid.axes[1] \in {0, 1, 2} /\ grid.axes[2] \in {0, 1, 2}
        /\ grid.axes[1] # grid.axes[2])
       => pc \in {"entry", "assign", "returned"}
    /\ GridReturned =>
        /\ ret.n_regions = grid.n_regions
        /\ Len(ret.region_ids) = Len(grid.coords_xyz)
        /\ \A j \in 1..Len(ret.region_ids) :
               ret.region_ids[j] \in 0..(grid.n_regions - 1)

\* a call whose grid has more cells than regions has returned, with a point
\* in the last region and a point in the first
C5_Witness ==
    /\ GridReturned
    /\ GridNx(grid.n_regions) * GridNy(grid.n_regions) > grid.n_regions
    /\ \E j \in 1..Len(ret.region_ids) : ret.region_ids[j] = grid.n_regions - 1
    /\ \E j \in 1..Len(ret.region_ids) : ret.region_ids[j] = 0

(***************************************************************************)
(* geometry.py: vectors, compute_arc_lengths, project_point_onto_segment   *)
(***************************************************************************)
\* np.asarray(point, dtype=float).reshape(3)
AsFloatVec(v) == [c \in 1..Len(v) |-> FromInt(v[c])]

VSub(a, b) == [c \in 1..3 |-> Sub(a[c], b[c])]
VAdd(a, b) == [c \in 1..3 |-> Add(a[c], b[c])]
VScale(t, a) == [c \in 1..3 |-> Mul(t, a[c])]

\* np.dot of two 3-vectors
Dot(a, b) == Add(Add(Mul(a[1], b[1]), Mul(a[2], b[2])), Mul(a[3], b[3]))

\* np.linalg.norm of a 3-vector
Norm(a) == Sqrt(Dot(a, a))

\* the variant of ArcLengthAt that measures straight from the first vertex
ArcLengthAt_FromStart(v, i) == Norm(VSub(v[i], v[1]))

\* lines 67-71: cumulative arc length up to vertex i (1-based) of v, N >= 1
RECURSIVE ArcLengthAt(_, _)
ArcLengthAt(v, i) ==
    IF i = 1 THEN Zero
    ELSE Add(ArcLengthAt(v, i - 1), Norm(VSub(v[i], v[i - 1])))

\* lines 64-72: compute_arc_lengths on a validated array of N >= 1 vertices
ComputeArcLengths(v) == [i \in 1..Len(v) |-> ArcLengthAt(v, i)]

\* the variant of SegLengths that gives every segment the polyline's total length
SegLengths_Total(v) == [i \in 1..(Len(v) - 1) |-> ArcLengthAt(v, Len(v))]

\* lines 150-151: seg_lengths = norm(diff(v))
SegLengths(v) == [i \in 1..(Len(v) - 1) |-> Norm(VSub(v[i + 1], v[i]))]

\* the variant of ClampT that leaves the parameter of the infinite line
ClampT_NoClamp(t) == t

\* line 115: max(0.0, min(1.0, t))
ClampT(t) ==
    LET m == IF Lt(One, t) THEN One ELSE t
    IN  IF Lt(Zero, m) THEN m ELSE Zero

\* the variant of DegenerateProjection that reports the segment's far end
DegenerateProjection_End(p, a) ==
    [distance |-> Norm(VSub(p, a)), closest_point |-> a, t |-> One]

\* lines 108-112: the projection onto a zero-length segment
DegenerateProjection(p, a) ==
    [distance |-> Norm(VSub(p, a)), closest_point |-> a, t |-> Zero]

\* lines 114-119: the projection onto a segment of non-zero length
ClampedProjection(p, a, ab, ab2) ==
    LET t == Div(Dot(VSub(p, a), ab), ab2)
        t_clamped == ClampT(t)
        closest == VAdd(a, VScale(t_clamped, ab))
    IN  [distance |-> Norm(VSub(p, closest)), closest_point |-> closest, t |-> t_clamped]

\* lines 105-119: the projection of p onto the segment from a to b
SegmentProjection(p, a, b) ==
    LET ab == VSub(b, a)
        ab2 == Dot(ab, ab)
    IN  IF ab2 = Zero THEN DegenerateProjection(p, a)
        ELSE ClampedProjection(p, a, ab, ab2)

\* lines 101-119: project_point_onto_segment as a function of its arguments
ProjectPointOntoSegment(point, start, end) ==
    SegmentProjection(AsFloatVec(point), AsFloatVec(start), AsFloatVec(end))

SegInit ==
    /\ fn = "project_point_onto_segment"
    /\ pc = "entry"
    /\ \E point \in SegPoints, start \in SegEnds, end \in SegEnds :
           seg = [point |-> point, start |-> start, end |-> end,
                  p |-> None, a |-> None, ab |-> None, ab2 |-> None]
    /\ jk = IdleFrame /\ grid = IdleFrame /\ poly = IdleFrame
    /\ ret = None
    /\ error = ""
    /\ call = IdleFrame /\ heap = <<>> /\ fil = IdleFrame

\* lines 101-106: the arguments as float vectors, ab and its squared length
SegEntry ==
    /\ fn = "project_point_onto_segment" /\ pc = "entry"
    /\ LET a == AsFloatVec(seg.start)
           ab == VSub(AsFloatVec(seg.end), a)
       IN  seg' = [seg EXCEPT !.p = AsFloatVec(seg.point), !.a = a,
                              !.ab = ab, !.ab2 = Dot(ab, ab)]
    /\ pc' = "branch"
    /\ UNCHANGED <<fn, jk, grid, poly, ret, error>>
    /\ UNCHANGED session

\* lines 108-112: ab2 == 0.0
SegDegenerate ==
    /\ fn = "project_point_onto_segment" /\ pc = "branch"
    /\ seg.ab2 = Zero
    /\ ret' = DegenerateProjection(seg.p, seg.a)
    /\ pc' = "returned"
    /\ UNCHANGED <<fn, jk, grid, seg, poly, error>>
    /\ UNCHANGED session

\* lines 114-119: ab2 != 0.0
SegProject ==
    /\ fn = "project_point_onto_segment" /\ pc = "branch"
    /\ seg.ab2 # Zero
    /\ ret' = ClampedProjection(seg.p, seg.a, seg.ab, seg.ab2)
    /\ pc' = "returned"
    /\ UNCHANGED <<fn, jk, grid, seg, poly, error>>
    /\ UNCHANGED session

SegNext == SegEntry \/ SegDegenerate \/ SegProject

SpecSegment == SegInit /\ [][SegNext]_vars

(***************************************************************************)
(* geometry.py: project_point_onto_polyline                                *)
(***************************************************************************)
\* the variant of Better that takes every segment scanned
Better_Always(distance, best_distance) == TRUE

\* the variant of Better that also takes a segment at an equal distance
Better_OrEqual(distance, best_distance) == ~LtNN(best_distance, distance)

\* line 157: distance < best_distance
Better(distance, best_distance) == LtNN(distance, best_distance)

\* the variant of SAlong that adds t without the segment's length
SAlong_NoLength(arc_start, t, seg_len) == Add(arc_start, t)

\* line 164: arc[best_seg_index] + best_t * seg_len
SAlong(arc_start, t, seg_len) == Add(arc_start, Mul(t, seg_len))

PolyInit ==
    /\ fn = "project_point_onto_polyline"
    /\ pc = "entry"
    /\ \E point \in PolyPoints,
          rows \in SeqsUpTo(PolyVertices, MaxVerts),
          ncols \in {2, 3} :
           poly = [point |-> point,
                   vertices |-> TruncateRows(rows, ncols),
                   ncols |-> ncols,
                   p |-> None, v |-> None, arc |-> None, seg_lengths |-> None,
                   best_distance |-> None, best_point |-> None,
                   best_seg_index |-> -1, best_t |-> None, i |-> 0]
    /\ jk = IdleFrame /\ grid = IdleFrame /\ seg = IdleFrame
    /\ ret = None
    /\ error = ""
    /\ call = IdleFrame /\ heap = <<>> /\ fil = IdleFrame

\* lines 141-151 (with _validate_vertices, lines 34-40): the argument checks,
\* the arc lengths, the initial best candidate and the segment lengths
PolyEntry ==
    /\ fn = "project_point_onto_polyline" /\ pc = "entry"
    /\ IF poly.ncols # 3
       THEN Raise("vertices must have shape (N, 3)") /\ UNCHANGED poly
       ELSE IF Len(poly.vertices) < 2
       THEN Raise("polyline requires at least 2 vertices") /\ UNCHANGED poly
       ELSE /\ LET v == AsFloatArray(poly.vertices)
               IN  poly' = [poly EXCEPT
                              !.p = AsFloatVec(poly.point),
                              !.v = v,
                              !.arc = ComputeArcLengths(v),
                              !.best_distance = Inf,
                              !.best_point = None,
                              !.best_seg_index = -1,
                              !.best_t = Zero,
                              !.seg_lengths = SegLengths(v),
                              !.i = 0]
            /\ pc' = "loop"
            /\ UNCHANGED <<ret, error>>
    /\ UNCHANGED <<fn, jk, grid, seg>>
    /\ UNCHANGED session

\* lines 153-161: one iteration of `for i in range(v.shape[0] - 1)`
PolyLoop ==
    /\ fn = "project_point_onto_polyline" /\ pc = "loop"
    /\ poly.i < Len(poly.v) - 1
    /\ LET r == SegmentProjection(poly.p, poly.v[poly.i + 1], poly.v[poly.i + 2])
       IN  IF Better(r.distance, poly.best_distance)
           THEN poly' = [poly EXCEPT
                           !.best_distance = r.distance,
                           !.best_point = r.closest_point,
                           !.best_seg_index = poly.i,
                           !.best_t = r.t,
                           !.i = @ + 1]
           ELSE poly' = [poly EXCEPT !.i = @ + 1]
    /\ UNCHANGED <<fn, pc, jk, grid, seg, ret, error>>
    /\ UNCHANGED session

\* lines 163-172: s_along and the returned ProjectionResult
PolyReturn ==
    /\ fn = "project_point_onto_polyline" /\ pc = "loop"
    /\ poly.i = Len(poly.v) - 1
    /\ LET seg_len == poly.seg_lengths[poly.best_seg_index + 1]
       IN  ret' = [distance |-> poly.best_distance,
                   closest_point |-> poly.best_point,
                   segment_index |-> poly.best_seg_index,
                   t |-> poly.best_t,
                   s_along |-> SAlong(poly.arc[poly.best_seg_index + 1],
                                      poly.best_t, seg_len)]
    /\ pc' = "returned"
    /\ UNCHANGED <<fn, jk, grid, seg, poly, error>>
    /\ UNCHANGED session

PolyNext == PolyEntry \/ PolyLoop \/ PolyReturn

SpecPolyline == PolyInit /\ [][PolyNext]_vars

\* a call of either routine of the geometry engine
GeometryInit == SegInit \/ PolyInit

GeometryNext == SegEntry \/ SegDegenerate \/ SegProject \/ PolyEntry \/ PolyLoop \/ PolyReturn

SpecGeometry == GeometryInit /\ [][GeometryNext]_vars

(***************************************************************************)
(* Properties of the geometry engine.                                      *)
(***************************************************************************)
SegReturned == fn = "project_point_onto_segment" /\ pc = "returned"
PolyReturned == fn = "project_point_onto_polyline" /\ pc = "returned"
PolyValidInput == fn = "project_point_onto_polyline" /\ poly.ncols = 3 /\ Len(poly.vertices) >= 2

\* parameters u in [0, 1] at which a segment is sampled
USamples == {Rat(n, d) : n \in 0..4, d \in 1..4} \cap {Rat(n, 12) : n \in 0..12}

\* start + u * (end - start)
PointAt(start, end, u) == VAdd(start, VScale(u, VSub(end, start)))

\* the squared distance between two points
Dist2(a, b) == Dot(VSub(a, b), VSub(a, b))

InUnitInterval(t) == IsFinite(t) /\ ~t.rt /\ Le(Zero, t) /\ Le(t, One)

\* clamp(x, 0, 1)
Clamp01(x) == IF Lt(x, Zero) THEN Zero ELSE IF Lt(One, x) THEN One ELSE x

\* vertex k (0-based) of the polyline being projected onto, and the number of
\* its vertices
Vtx(k) == AsFloatVec(poly.vertices[k + 1])
NVerts == Len(poly.vertices)
PolyP == AsFloatVec(poly.point)

\* the result of the segment routine for segment k (0-based) of the polyline
SegResult(k) ==
    ProjectPointOntoSegment(poly.point, poly.vertices[k + 1], poly.vertices[k + 2])

\* C6: the result of a polyline projection has segment_index in [0, N-2],
\* t in [0, 1], closest_point = v[segment_index] + t * (v[segment_index+1] -
\* v[segment_index]), distance = ||point - closest_point||, and distance is
\* the minimum over the N-1 segments of the point-to-segment distance: no
\* point of the polyline is nearer.
C6_PolylineMinimum ==
    /\ PolyValidInput => pc # "raised"
    /\ PolyReturned =>
        /\ ret.segment_index \in 0..(NVerts - 2)
        /\ InUnitInterval(ret.t)
        /\ ret.closest_point =
               PointAt(Vtx(ret.segment_index), Vtx(ret.segment_index + 1), ret.t)
        /\ NonNegative(ret.distance)
        /\ Sq(ret.distance) = Dist2(PolyP, ret.closest_point)
        /\ \E k \in 0..(NVerts - 2) : SegResult(k).distance = ret.distance
        /\ \A k \in 0..(NVerts - 2) :
               /\ ~LtNN(SegResult(k).distance, ret.distance)
               /\ \A u \in USamples :
                      Le(Sq(ret.distance), Dist2(PolyP, PointAt(Vtx(k), Vtx(k + 1), u)))

\* a projection onto the interior of the second or a later segment, off the
\* polyline, has returned
C6_Witness ==
    /\ PolyReturned /\ NVerts >= 3
    /\ ret.segment_index >= 1
    /\ Lt(Zero, ret.t) /\ Lt(ret.t, One)
    /\ ret.distance # Zero

\* the segments at the minimum distance
MinSegments == {k \in 0..(NVerts - 2) : SegResult(k).distance = ret.distance}

LowestIndexWins ==
    /\ ret.segment_index \in MinSegments
    /\ \A k \in MinSegments : ret.segment_index <= k
    /\ ret.t = SegResult(ret.segment_index).t
    /\ ret.closest_point = SegResult(ret.segment_index).closest_point

\* the interior vertices (0-based) the projected point lies on
InteriorVerticesAtPoint == {k \in 1..(NVerts - 2) : Vtx(k) = PolyP}

SegP == AsFloatVec(seg.point)
SegA == AsFloatVec(seg.start)
SegB == AsFloatVec(seg.end)

\* the parameter of the foot of the perpendicular on the line through a, b
RawParameter(p, a, b) == Div(Dot(VSub(p, a), VSub(b, a)), Dot(VSub(b, a), VSub(b, a)))

\* C8: for start # end the segment routine returns t = clamp(dot(point-start,
\* end-start)/dot(end-start, end-start), 0, 1), closest_point = start +
\* t*(end-start), distance = ||point - closest_point||, and no point
\* start + u*(end-start), u in [0, 1], is nearer to the point.
C8_SegmentClosestPoint ==
    (SegReturned /\ seg.start # seg.end) =>
        /\ ret.t = Clamp01(RawParameter(SegP, SegA, SegB))
        /\ ret.closest_point = PointAt(SegA, SegB, ret.t)
        /\ NonNegative(ret.distance)
        /\ Sq(ret.distance) = Dist2(SegP, ret.closest_point)
        /\ \A u \in USamples :
               Le(Sq(ret.distance), Dist2(SegP, PointAt(SegA, SegB, u)))

\* a point whose perpendicular foot lies beyond the end of the segment has
\* been projected onto the end
C8_Witness ==
    /\ SegReturned /\ seg.start # seg.end
    /\ Lt(One, RawParameter(SegP, SegA, SegB))
    /\ ret.t = One /\ ret.closest_point = SegB

ZeroLengthSegments == {k \in 0..(NVerts - 2) : Vtx(k) = Vtx(k + 1)}

\* C9: a zero-length segment is no error: the segment routine returns
\* closest_point = start, t = 0 and distance = ||point - start||; a polyline
\* with zero-length segments is projected onto without error, with
\* segment_index in [0, N-2] and, when the selected segment has zero length,
\* s_along = arc_lengths[segment_index].
C9_ZeroLengthSegment ==
    /\ fn = "project_point_onto_segment" => pc # "raised"
    /\ (SegReturned /\ seg.start = seg.end) =>
        /\ ret.closest_point = SegA
        /\ ret.t = Zero
        /\ NonNegative(ret.distance)
        /\ Sq(ret.distance) = Dist2(SegP, SegA)
    /\ (PolyValidInput /\ ZeroLengthSegments # {}) => pc # "raised"
    /\ (PolyReturned /\ ZeroLengthSegments # {}) =>
        /\ ret.segment_index \in 0..(NVerts - 2)
        /\ ret.segment_index \in ZeroLengthSegments =>
               /\ ret.s_along = ArcLengthAt(AsFloatArray(poly.vertices), ret.segment_index + 1)
               /\ ret.closest_point = Vtx(ret.segment_index)

\* a zero-length segment of a polyline that also has a segment of non-zero
\* length has been selected
C9_Witness ==
    /\ PolyReturned
    /\ ret.segment_index \in ZeroLengthSegments
    /\ ZeroLengthSegments # 0..(NVerts - 2)

\* the polyline is [(0,0,0), (L,0,0)] with L > 0 and the point is (x0, y, 0)
OnAxisCase ==
    /\ fn = "project_point_onto_polyline" /\ poly.ncols = 3
    /\ NVerts = 2
    /\ poly.vertices[1] = <<0, 0, 0>>
    /\ poly.vertices[2][1] > 0 /\ poly.vertices[2][2] = 0 /\ poly.vertices[2][3] = 0
    /\ poly.point[3] = 0

\* C10: for the polyline [(0,0,0), (L,0,0)], L > 0, and the point (x0, y, 0):
\* if 0 <= x0 <= L then distance = |y|, closest_point = (x0,0,0) and
\* s_along = x0; if x0 < 0 then closest_point is the first vertex and
\* s_along = 0; if x0 > L then closest_point is the last vertex and
\* s_along = L.
C10_StraightPolyline ==
    /\ OnAxisCase => pc # "raised"
    /\ (PolyReturned /\ OnAxisCase) =>
        LET x0 == poly.point[1]
            y == poly.point[2]
            L == poly.vertices[2][1]
        IN  /\ (0 <= x0 /\ x0 <= L) =>
                   /\ ret.distance = FromInt(Abs(y))
                   /\ ret.closest_point = AsFloatVec(<<x0, 0, 0>>)
                   /\ ret.s_along = FromInt(x0)
            /\ x0 < 0 =>
                   /\ ret.closest_point = AsFloatVec(poly.vertices[1])
                   /\ ret.s_along = Zero
            /\ x0 > L =>
                   /\ ret.closest_point = AsFloatVec(poly.vertices[2])
                   /\ ret.s_along = FromInt(L)

\* a point off the axis, with its foot strictly inside the segment, has been
\* projected
C10_Witness ==
    /\ PolyReturned /\ OnAxisCase
    /\ 0 < poly.point[1] /\ poly.point[1] < poly.vertices[2][1]
    /\ poly.point[2] # 0
    /\ ret.s_along = FromInt(poly.point[1])

\* the length of segment k (0-based) and the arc length up to vertex k
SegLenOf(k) == Norm(VSub(Vtx(k + 1), Vtx(k)))
ArcSum(k) == SumTo(SegLenOf, k)

\* C11: s_along = arc_lengths[segment_index] + t * (length of the selected
\* segment), hence arc_lengths[segment_index] <= s_along <=
\* arc_lengths[segment_index+1] and 0 <= s_along <= total length.
C11_SAlongWithinSegment ==
    PolyReturned =>
        LET k == ret.segment_index
        IN  /\ ret.s_along = Add(ArcSum(k), Mul(ret.t, SegLenOf(k)))
            /\ Le(ArcSum(k), ret.s_along)
            /\ Le(ret.s_along, ArcSum(k + 1))
            /\ Le(Zero, ret.s_along)
            /\ Le(ret.s_along, ArcSum(NVerts - 1))

\* a projection strictly inside the second segment of a polyline whose
\* segments differ in length has returned
C11_Witness ==
    /\ PolyReturned /\ NVerts >= 3
    /\ ret.segment_index = 1
    /\ Lt(Zero, ret.t) /\ Lt(ret.t, One)
    /\ SegLenOf(0) # SegLenOf(1)
    /\ Lt(ArcSum(1), ret.s_along) /\ Lt(ret.s_along, ArcSum(2))

(***************************************************************************)
(* Further properties of assign_jackknife_grid_from_xyz.                   *)
(***************************************************************************)
GridAx0 == grid.axes[1]
GridAx1 == grid.axes[2]

\* C16: the call fails, returning no assignment, whenever n_regions <= 0,
\* the coordinates are not N x 3, an axis is outside {0,1,2}, or the two
\* axes are equal.
C16_GridArgumentErrors ==
    (/\ fn = "assign_jackknife_grid_from_xyz"
     /\ \/ grid.n_regions <= 0
        \/ grid.ncols # 3
        \/ GridAx0 \notin {0, 1, 2} \/ GridAx1 \notin {0, 1, 2}
        \/ GridAx0 = GridAx1) =>
        /\ pc \in {"entry", "raised"}
        /\ ret = None
        /\ pc = "raised" => error # ""

\* a call with two equal, valid axes on a well-shaped array has raised
C16_Witness ==
    /\ fn = "assign_jackknife_grid_from_xyz" /\ pc = "raised"
    /\ grid.ncols = 3 /\ grid.n_regions >= 1 /\ Len(grid.coords_xyz) >= 1
    /\ GridAx0 \in {0, 1, 2} /\ GridAx0 = GridAx1
    /\ error = "axes must be distinct"

\* the grid of the claim, in integer arithmetic on the integer coordinates
AxisValues(ax) == {grid.coords_xyz[j][ax + 1] : j \in 1..Len(grid.coords_xyz)}
AxisMin(ax) == CHOOSE m \in AxisValues(ax) : \A x \in AxisValues(ax) : m <= x
AxisMax(ax) == CHOOSE m \in AxisValues(ax) : \A x \in AxisValues(ax) : x <= m
AxisWidth(ax) == IF AxisMax(ax) = AxisMin(ax) THEN 1 ELSE AxisMax(ax) - AxisMin(ax)
ClaimNx == CHOOSE r \in 1..grid.n_regions : r * r <= grid.n_regions /\ (r + 1) * (r + 1) > grid.n_regions
ClaimNy == CHOOSE m \in 1..grid.n_regions : m * ClaimNx >= grid.n_regions /\ (m - 1) * ClaimNx < grid.n_regions
ClaimCell(j, ax, n) ==
    LET q == ((grid.coords_xyz[j][ax + 1] - AxisMin(ax)) * n) \div AxisWidth(ax)
    IN  IF q < 0 THEN 0 ELSE IF q > n - 1 THEN n - 1 ELSE q
ClaimRegionId(j) ==
    LET id == ClaimCell(j, GridAx0, ClaimNx) + ClaimNx * ClaimCell(j, GridAx1, ClaimNy)
    IN  IF id < grid.n_regions - 1 THEN id ELSE grid.n_regions - 1

GridFormula ==
    \A j \in 1..Len(ret.region_ids) :
        /\ ret.region_ids[j] = ClaimRegionId(j)
        /\ AxisMax(GridAx0) = AxisMin(GridAx0) => ClaimCell(j, GridAx0, ClaimNx) = 0
        /\ AxisMax(GridAx1) = AxisMin(GridAx1) => ClaimCell(j, GridAx1, ClaimNy) = 0

\* C19 as stated: the region ids follow the grid formula, and a point at the
\* sample maximum of an axis gets the last cell index on that axis.
C19_GridFormulaMaxLast ==
    GridReturned =>
        /\ GridFormula
        /\ \A j \in 1..Len(ret.region_ids) :
               /\ grid.coords_xyz[j][GridAx0 + 1] = AxisMax(GridAx0)
                      => ClaimCell(j, GridAx0, ClaimNx) = ClaimNx - 1
               /\ grid.coords_xyz[j][GridAx1 + 1] = AxisMax(GridAx1)
                      => ClaimCell(j, GridAx1, ClaimNy) = ClaimNy - 1

\* C19, amended: the region ids follow the grid formula (nx =
\* floor(sqrt(n_regions)), ny = ceil(n_regions/nx), cell indices floored and
\* clamped, a zero-width range widened to 1 so that all points get index 0,
\* id = min(ix + nx*iy, n_regions-1)), and a point at the sample maximum of
\* an axis whose range has non-zero width gets the last cell index on it.
C19_GridFormula ==
    GridReturned =>
        /\ GridFormula
        /\ \A j \in 1..Len(ret.region_ids) :
               /\ (grid.coords_xyz[j][GridAx0 + 1] = AxisMax(GridAx0)
                   /\ AxisMax(GridAx0) # AxisMin(GridAx0))
                      => ClaimCell(j, GridAx0, ClaimNx) = ClaimNx - 1
               /\ (grid.coords_xyz[j][GridAx1 + 1] = AxisMax(GridAx1)
                   /\ AxisMax(GridAx1) # AxisMin(GridAx1))
                      => ClaimCell(j, GridAx1, ClaimNy) = ClaimNy - 1

\* a call has returned three distinct region ids on a grid with more cells
\* than regions, one of them the merged last region
C19_Witness ==
    /\ GridReturned
    /\ ClaimNx * ClaimNy > grid.n_regions
    /\ Cardinality({ret.region_ids[j] : j \in 1..Len(ret.region_ids)}) >= 3
    /\ \E j \in 1..Len(ret.region_ids) :
           /\ ret.region_ids[j] = grid.n_regions - 1
           /\ ClaimCell(j, GridAx0, ClaimNx) + ClaimNx * ClaimCell(j, GridAx1, ClaimNy)
                  > grid.n_regions - 1

\* the axis not listed in axes, and the values tried on it
ThirdAxis == CHOOSE ax \in {0, 1, 2} : ax # GridAx0 /\ ax # GridAx1
ThirdAxisValues == {-4, 7}

\* the coordinate arrays that agree with coords_xyz on the two chosen axes
ThirdAxisVariants ==
    {[j \in 1..Len(grid.coords_xyz) |->
         [grid.coords_xyz[j] EXCEPT ![ThirdAxis + 1] = z[j]]] :
     z \in [1..Len(grid.coords_xyz) -> ThirdAxisValues]}

\* C20: coordinate arrays that agree on the two chosen axes for every point
\* and differ only on the third yield the same region_ids for the same
\* n_regions and axes.
C20_ThirdAxisIndependence ==
    GridReturned =>
        \A other \in ThirdAxisVariants :
            GridRegionIds(AsFloatArray(other), grid.n_regions, GridAx0, GridAx1)
                = ret.region_ids

\* a call has returned two distinct region ids for points that differ on the
\* third axis
C20_Witness ==
    /\ GridReturned
    /\ \E i, j \in 1..Len(ret.region_ids) :
           /\ ret.region_ids[i] # ret.region_ids[j]
           /\ grid.coords_xyz[i][ThirdAxis + 1] # grid.coords_xyz[j][ThirdAxis + 1]

(***************************************************************************)
(* geometry.py: a call of compute_arc_lengths                              *)
(***************************************************************************)
ArcInit ==
    /\ fn = "compute_arc_lengths"
    /\ pc = "entry"
    /\ \E rows \in SeqsUpTo(PolyVertices, MaxVerts), ncols \in {2, 3} :
           call = [vertices |-> TruncateRows(rows, ncols), ncols |-> ncols, v |-> None]
    /\ jk = IdleFrame /\ grid = IdleFrame /\ seg = IdleFrame /\ poly = IdleFrame
    /\ ret = None
    /\ error = ""
    /\ heap = <<>> /\ fil = IdleFrame

\* lines 58-65: the argument checks and the single-vertex case
ArcEntry ==
    /\ fn = "compute_arc_lengths" /\ pc = "entry"
    /\ IF call.ncols # 3
       THEN Raise("vertices must have shape (N, 3)") /\ UNCHANGED call
       ELSE IF Len(call.vertices) = 0
       THEN Raise("at least one vertex required") /\ UNCHANGED call
       ELSE IF Len(call.vertices) = 1
       THEN /\ ret' = <<Zero>>
            /\ pc' = "returned"
            /\ UNCHANGED <<call, error>>
       ELSE /\ call' = [call EXCEPT !.v = AsFloatArray(call.vertices)]
            /\ pc' = "cumsum"
            /\ UNCHANGED <<ret, error>>
    /\ UNCHANGED <<fn, jk, grid, seg, poly, heap, fil>>

\* lines 67-72: the cumulative sum of the segment lengths
ArcCumsum ==
    /\ fn = "compute_arc_lengths" /\ pc = "cumsum"
    /\ ret' = ComputeArcLengths(call.v)
    /\ pc' = "returned"
    /\ UNCHANGED <<fn, jk, grid, seg, poly, error, call, heap, fil>>

ArcNext == ArcEntry \/ ArcCumsum

SpecArcLengths == ArcInit /\ [][ArcNext]_vars

(***************************************************************************)
(* filament.py and mapping.py: a caller's session with one Filament.       *)
(* The caller holds a vertex array (heap address 1) and a point array      *)
(* (heap address 2), builds a Filament from the first, and then calls the  *)
(* projection methods and writes to its vertex array in any order.  An     *)
(* array a returned value owns alone is kept in the value; an array that   *)
(* shares storage is an address of the heap.                               *)
(***************************************************************************)
MaxFilVerts == 2   \* most vertices of a caller's vertex array
MaxWrites == 1     \* most writes of the caller to its vertex array

\* the vertices a caller's vertex array is drawn from and overwritten with
FilVertices == {<<0, 0, 0>>, <<3, 0, 0>>}

\* the points a caller projects one at a time
FilPoints == {<<1, 0, 0>>, <<3, 4, 0>>}

\* the point arguments of the batch methods: form is what the caller holds,
\* flat tells a single point [x, y, z] from a sequence of points
BatchInputs ==
    { [form |-> "list", flat |-> FALSE, rows |-> <<>>],
      [form |-> "ndarray", flat |-> FALSE, rows |-> <<>>],
      [form |-> "list", flat |-> TRUE, rows |-> << <<1, 0, 0>> >>],
      [form |-> "ndarray", flat |-> TRUE, rows |-> << <<3, 4, 0>> >>],
      [form |-> "list", flat |-> FALSE, rows |-> << <<3, 4, 0>>, <<1, 0, 0>> >>],
      [form |-> "ndarray", flat |-> FALSE, rows |-> << <<1, 0, 0>>, <<3, 4, 0>> >>] }

VertexAddr == 1
PointsAddr == 2

\* np.asarray(x, dtype=float) returns x itself when x is a float ndarray
\* and a new array otherwise
SharesStorage(form) == form = "ndarray"

\* the ndim of np.asarray(points): an empty list and a single point are 1-D
Ndim(input) == IF input.flat \/ (input.form = "list" /\ input.rows = <<>>) THEN 1 ELSE 2

\* pts.reshape(1, 3) succeeds on exactly three numbers
ReshapeFails(input) == Ndim(input) = 1 /\ 3 * Len(input.rows) # 3

\* the variant of FilamentTooShort that lets a single vertex through
FilamentTooShort_AllowOne(n) == n < 1

\* filament.py line 43: v.shape[0] < 2
FilamentTooShort(n) == n < 2

\* the one element of a singleton set: Only({F(x) : x \in {e}}) is F(e) with
\* e evaluated once
Only(S) == CHOOSE x \in S : TRUE

\* geometry.py lines 156-161: the best candidate after segment i with result r
Candidate(r, i, best) ==
    IF Better(r.distance, best.distance)
    THEN [distance |-> r.distance, point |-> r.closest_point, index |-> i, t |-> r.t]
    ELSE best

\* geometry.py lines 153-161: the scan of the segments from segment i on
RECURSIVE ScanSegments(_, _, _, _)
ScanSegments(p, v, i, best) ==
    IF i >= Len(v) - 1 THEN best
    ELSE Only({ScanSegments(p, v, i + 1, next) :
                 next \in {Candidate(r, i, best) :
                              r \in {SegmentProjection(p, v[i + 1], v[i + 2])}}})

\* geometry.py lines 141-172: project_point_onto_polyline on validated arguments
PolylineResult(v, best) ==
    [distance |-> best.distance,
     closest_point |-> best.point,
     segment_index |-> best.index,
     t |-> best.t,
     s_along |-> SAlong(ComputeArcLengths(v)[best.index + 1], best.t,
                        SegLengths(v)[best.index + 1])]

PolylineProjection(p, v) ==
    Only({PolylineResult(v, best) :
            best \in {ScanSegments(p, v, 0, [distance |-> Inf, point |-> None,
                                             index |-> -1, t |-> Zero])}})

\* geometry.py lines 108-112 and 171: on a zero-length segment closest = a,
\* the row v[i] of the vertex array itself, and np.asarray keeps it
ClosestIsView(v, i) == Dot(VSub(v[i + 2], v[i + 1]), VSub(v[i + 2], v[i + 1])) = Zero

\* filament.py lines 67-68: project_point against the array at address addr;
\* closest_base is the address closest_point shares storage with (0: none)
WithStorage(r, v, addr) ==
    LET view == ClosestIsView(v, r.segment_index)
    IN  [distance |-> r.distance,
         closest_point |-> r.closest_point,
         closest_base |-> IF view THEN addr ELSE 0,
         closest_row |-> IF view THEN r.segment_index + 1 ELSE 0,
         segment_index |-> r.segment_index,
         t |-> r.t,
         s_along |-> r.s_along]

ProjectPointOf(point, addr) ==
    LET v == AsFloatArray(heap[addr])
    IN  Only({WithStorage(r, v, addr) :
                r \in {PolylineProjection(AsFloatVec(point), v)}})

\* filament.py lines 87-90: results.append(self.project_point(p)) for p in pts
BatchResults(rows, addr) == [i \in 1..Len(rows) |-> ProjectPointOf(rows[i], addr)]

\* filament.py lines 108-111: the distance and s_along columns of the results
Columns(results) ==
    [distances |-> [i \in 1..Len(results) |-> results[i].distance],
     s_along |-> [i \in 1..Len(results) |-> results[i].s_along]]

DistancesAndSAlongOf(rows, addr) ==
    Only({Columns(results) : results \in {BatchResults(rows, addr)}})

\* filament.py lines 48-51: Filament.length
FilamentLength(f) == f.arc_lengths[Len(f.arc_lengths)]

FilInit ==
    /\ fn = "Filament"
    /\ pc = "start"
    /\ \E rows \in SeqsUpTo(FilVertices, MaxFilVerts), ncols \in {2, 3},
          form \in {"list", "ndarray"}, input \in BatchInputs :
           /\ fil = [form |-> form, ncols |-> ncols, input |-> input,
                     filament |-> None, built |-> None, seen |-> None,
                     writes |-> 0, last |-> ""]
           /\ heap = <<TruncateRows(rows, ncols), input.rows>>
    /\ jk = IdleFrame /\ grid = IdleFrame /\ seg = IdleFrame /\ poly = IdleFrame
    /\ call = IdleFrame
    /\ ret = None
    /\ error = ""

\* filament.py lines 40-46: Filament.from_vertices(v)
FromVertices ==
    /\ fn = "Filament" /\ pc = "start"
    /\ IF fil.ncols # 3
       THEN Raise("vertices must have shape (N, 3)") /\ UNCHANGED <<heap, fil>>
       ELSE IF FilamentTooShort(Len(heap[VertexAddr]))
       THEN Raise("filament requires at least 2 vertices") /\ UNCHANGED <<heap, fil>>
       ELSE LET shared == SharesStorage(fil.form)
                addr == IF shared THEN VertexAddr ELSE Len(heap) + 1
                f == [vertices |-> addr,
                      arc_lengths |-> ComputeArcLengths(AsFloatArray(heap[VertexAddr]))]
            IN  /\ heap' = IF shared THEN heap ELSE Append(heap, heap[VertexAddr])
                /\ fil' = [fil EXCEPT !.filament = f, !.built = heap[VertexAddr],
                                      !.last = "from_vertices"]
                /\ ret' = f
                /\ pc' = "ready"
                /\ UNCHANGED error
    /\ UNCHANGED <<fn, jk, grid, seg, poly, call>>

\* the caller assigns a vertex to row j of the array it passed to from_vertices
CallerWrite ==
    /\ fn = "Filament" /\ pc = "ready"
    /\ fil.writes < MaxWrites
    /\ \E j \in 1..Len(heap[VertexAddr]), row \in FilVertices :
           /\ row # heap[VertexAddr][j]
           /\ heap' = [heap EXCEPT ![VertexAddr][j] = row]
    /\ fil' = [fil EXCEPT !.writes = @ + 1]
    /\ UNCHANGED <<fn, pc, jk, grid, seg, poly, ret, error, call>>

\* filament.py lines 67-68: filament.project_point(point)
ProjectPoint ==
    /\ fn = "Filament" /\ pc = "ready"
    /\ \E point \in FilPoints : ret' = ProjectPointOf(point, fil.filament.vertices)
    /\ error' = ""
    /\ fil' = [fil EXCEPT !.last = "project_point", !.seen = heap[fil.filament.vertices]]
    /\ UNCHANGED <<fn, pc, jk, grid, seg, poly, call, heap>>

\* filament.py lines 84-90: filament.project_points(points)
ProjectPoints ==
    /\ fn = "Filament" /\ pc = "ready"
    /\ IF ReshapeFails(fil.input)
       THEN /\ ret' = None
            /\ error' = "cannot reshape array into shape (1, 3)"
       ELSE /\ ret' = BatchResults(fil.input.rows, fil.filament.vertices)
            /\ error' = ""
    /\ fil' = [fil EXCEPT !.last = "project_points", !.seen = heap[fil.filament.vertices]]
    /\ UNCHANGED <<fn, pc, jk, grid, seg, poly, call, heap>>

\* filament.py lines 108-111: filament.distances_and_s_along(points)
DistancesAndSAlong ==
    /\ fn = "Filament" /\ pc = "ready"
    /\ IF ReshapeFails(fil.input)
       THEN /\ ret' = None
            /\ error' = "cannot reshape array into shape (1, 3)"
       ELSE /\ ret' = DistancesAndSAlongOf(fil.input.rows, fil.filament.vertices)
            /\ error' = ""
    /\ fil' = [fil EXCEPT !.last = "distances_and_s_along",
                          !.seen = heap[fil.filament.vertices]]
    /\ UNCHANGED <<fn, pc, jk, grid, seg, poly, call, heap>>

\* mapping.py lines 49-56: map_cartesian_to_filament(points, filament); every
\* row of the inputs has three columns, so line 52 never raises here
MapCartesian ==
    /\ fn = "Filament" /\ pc = "ready"
    /\ IF ReshapeFails(fil.input)
       THEN /\ ret' = None
            /\ error' = "cannot reshape array into shape (1, 3)"
       ELSE /\ \E r \in {DistancesAndSAlongOf(fil.input.rows, fil.filament.vertices)} :
                   ret' = [coords_xyz |-> AsFloatArray(fil.input.rows),
                           coords_base |-> IF SharesStorage(fil.input.form)
                                            THEN PointsAddr ELSE 0,
                           distances |-> r.distances,
                           s_along |-> r.s_along]
            /\ error' = ""
    /\ fil' = [fil EXCEPT !.last = "map_cartesian_to_filament",
                          !.seen = heap[fil.filament.vertices]]
    /\ UNCHANGED <<fn, pc, jk, grid, seg, poly, call, heap>>

FilNext ==
    \/ FromVertices
    \/ CallerWrite
    \/ ProjectPoint
    \/ ProjectPoints
    \/ DistancesAndSAlong
    \/ MapCartesian

SpecFilament == FilInit /\ [][FilNext]_vars

\* a call of any routine that takes a vertex array
VerticesInit == ArcInit \/ PolyInit \/ FilInit

VerticesNext ==
    \/ ArcEntry \/ ArcCumsum
    \/ PolyEntry \/ PolyLoop \/ PolyReturn
    \/ FromVertices \/ CallerWrite \/ ProjectPoint \/ ProjectPoints
    \/ DistancesAndSAlong \/ MapCartesian

SpecVertices == VerticesInit /\ [][VerticesNext]_vars

(***************************************************************************)
(* Properties of compute_arc_lengths and of the Filament session.          *)
(***************************************************************************)
ArcReturned == fn = "compute_arc_lengths" /\ pc = "returned"
ArcN == Len(call.vertices)
ArcVtx(k) == AsFloatVec(call.vertices[k])

FilamentBuilt == fn = "Filament" /\ fil.filament # None
FilamentRows == heap[fil.filament.vertices]

\* C12: for every N x 3 vertex array with N >= 1 compute_arc_lengths returns
\* N values with arc[0] = 0 and arc[i] = arc[i-1] + |v[i] - v[i-1]|, hence
\* non-decreasing; a Filament built by from_vertices has as many arc lengths
\* as vertices, and its length is the last arc length.
C12_ArcLengths ==
    /\ (fn = "compute_arc_lengths" /\ call.ncols = 3 /\ ArcN >= 1) => pc # "raised"
    /\ ArcReturned =>
         /\ Len(ret) = ArcN
         /\ ret[1] = Zero
         /\ \A i \in 2..ArcN :
                /\ ret[i] = Add(ret[i - 1], Norm(VSub(ArcVtx(i), ArcVtx(i - 1))))
                /\ Le(ret[i - 1], ret[i])
    /\ FilamentBuilt =>
         /\ Len(fil.filament.arc_lengths) = Len(FilamentRows)
         /\ FilamentLength(fil.filament) = fil.filament.arc_lengths[Len(FilamentRows)]
         /\ fil.writes = 0 =>
                FilamentLength(fil.filament) =
                    SumSeq(SegLengths(AsFloatArray(FilamentRows)))

\* three vertices off a straight line, both segments of non-zero length
C12_Witness ==
    /\ ArcReturned
    /\ ArcN = 3
    /\ ret[2] # Zero
    /\ ret[3] # ret[2]
    /\ ret[3] # Norm(VSub(ArcVtx(3), ArcVtx(1)))

\* C14: from_vertices and project_point_onto_polyline fail, with no Filament
\* and no ProjectionResult, on fewer than 2 vertices or on vertices that are
\* not N x 3; compute_arc_lengths fails on zero vertices or a wrong shape
\* and returns [0.0] for exactly one vertex.
C14_ShapeValidation ==
    /\ (fn = "Filament" /\ (fil.ncols # 3 \/ Len(heap[VertexAddr]) < 2)) =>
         /\ pc \in {"start", "raised"}
         /\ fil.filament = None /\ ret = None
         /\ pc = "raised" => error # ""
    /\ (fn = "project_point_onto_polyline"
          /\ (poly.ncols # 3 \/ Len(poly.vertices) < 2)) =>
         /\ pc \in {"entry", "raised"}
         /\ ret = None
         /\ pc = "raised" => error # ""
    /\ (fn = "compute_arc_lengths" /\ (call.ncols # 3 \/ ArcN = 0)) =>
         /\ pc \in {"entry", "raised"}
         /\ ret = None
         /\ pc = "raised" => error # ""
    /\ (fn = "compute_arc_lengths" /\ call.ncols = 3 /\ ArcN = 1) =>
         /\ pc \in {"entry", "returned"}
         /\ pc = "returned" => ret = <<Zero>>

\* from_vertices has refused a single well-formed vertex
C14_Witness ==
    /\ fn = "Filament" /\ pc = "raised"
    /\ fil.ncols = 3
    /\ Len(heap[VertexAddr]) = 1
    /\ error = "filament requires at least 2 vertices"

\* a batch method has been called on the Filament
BatchCalled ==
    /\ fn = "Filament" /\ pc = "ready"
    /\ fil.last \in {"project_points", "distances_and_s_along",
                     "map_cartesian_to_filament"}

\* the number M of input points, and point i (1-based) of the input
NumPoints == Len(fil.input.rows)
InputPoint(i) == AsFloatVec(fil.input.rows[i])

\* project_point applied to input point i alone, against the vertices the
\* Filament had when the batch method was called
AloneResult(i) == PolylineProjection(InputPoint(i), AsFloatArray(fil.seen))

\* entry i of every returned sequence is the one of input point i
AlignedWithInput ==
    /\ fil.last = "project_points" =>
         /\ Len(ret) = NumPoints
         /\ \A i \in 1..NumPoints :
                /\ ret[i].distance = AloneResult(i).distance
                /\ ret[i].s_along = AloneResult(i).s_along
    /\ fil.last \in {"distances_and_s_along", "map_cartesian_to_filament"} =>
         /\ Len(ret.distances) = NumPoints
         /\ Len(ret.s_along) = NumPoints
         /\ \A i \in 1..NumPoints :
                /\ ret.distances[i] = AloneResult(i).distance
                /\ ret.s_along[i] = AloneResult(i).s_along
    /\ fil.last = "map_cartesian_to_filament" =>
         /\ Len(ret.coords_xyz) = NumPoints
         /\ \A i \in 1..NumPoints : ret.coords_xyz[i] = InputPoint(i)

\* the batch methods on the inputs they accept
AlignedWhenAccepted == (BatchCalled /\ error = "") => AlignedWithInput

\* C13: for M input points project_points returns M results and
\* distances_and_s_along two arrays of length M, entry i being that of
\* project_point on input point i alone; map_cartesian_to_filament returns
\* coords_xyz, distances and s_along of one length, index i referring to
\* input point i.
C13_BatchPreservesInput == BatchCalled => (error = "" /\ AlignedWithInput)

\* C17: after from_vertices(v), whatever the projection calls and the
\* caller's writes to v, the filament's vertices are the values v had at
\* construction and arc_lengths is compute_arc_lengths of those vertices.
C17_FilamentImmutable ==
    FilamentBuilt =>
        /\ FilamentRows = fil.built
        /\ fil.filament.arc_lengths = ComputeArcLengths(AsFloatArray(FilamentRows))

\* C18: closest_point of a ProjectionResult, the vertices of a Filament and
\* coords_xyz of a GalaxyFilamentMapping share no storage with an array of
\* the caller or with the Filament's vertices.
C18_ReturnedArraysFresh ==
    fn = "Filament" =>
        /\ FilamentBuilt => fil.filament.vertices # VertexAddr
        /\ (pc = "ready" /\ fil.last = "project_point") => ret.closest_base = 0
        /\ (pc = "ready" /\ fil.last = "project_points" /\ error = "") =>
               \A i \in 1..Len(ret) : ret[i].closest_base = 0
        /\ (pc = "ready" /\ fil.last = "map_cartesian_to_filament" /\ error = "") =>
               ret.coords_base = 0

(***************************************************************************)
(* jackknife.py in binary floating point.  The model above computes in     *)
(* exact reals; here every operation rounds its exact result to the        *)
(* nearest number of Prec significant bits, ties to even, as IEEE 754      *)
(* arithmetic does (float64 has 53 bits; the exponent is unbounded here,   *)
(* so overflow and underflow do not arise).  A float is m * 2^e with       *)
(* m = 0 or 2^(Prec-1) <= |m| < 2^Prec.                                    *)
(***************************************************************************)
Prec == 8          \* significant bits of a float

FZero == [m |-> 0, e |-> 0, nan |-> FALSE]
FNaN == [m |-> 0, e |-> 0, nan |-> TRUE]

\* the number of bits of a natural number
RECURSIVE BitLen(_)
BitLen(a) == IF a = 0 THEN 0 ELSE 1 + BitLen(a \div 2)

\* a * 2^e for a natural a of k bits more than Prec, rounded to Prec bits
RoundDown(s, a, e, k) ==
    LET q == a \div 2^k
        r == a % 2^k
        half == 2^(k - 1)
        up == r > half \/ (r = half /\ q % 2 = 1)
        q1 == IF up THEN q + 1 ELSE q
    IN  IF q1 = 2^Prec THEN [m |-> s * 2^(Prec - 1), e |-> e + k + 1, nan |-> FALSE]
        ELSE [m |-> s * q1, e |-> e + k, nan |-> FALSE]

\* the float nearest to the exact value n * 2^e
RoundInt(n, e) ==
    IF n = 0 THEN FZero
    ELSE LET s == IF n > 0 THEN 1 ELSE -1
             a == Abs(n)
             k == BitLen(a) - Prec
         IN  IF k <= 0 THEN [m |-> s * a * 2^(-k), e |-> e + k, nan |-> FALSE]
             ELSE RoundDown(s, a, e, k)

\* x + y for floats with x.e >= y.e: an addend below a quarter of the last
\* place of the other leaves it unchanged
AddAligned(x, y) ==
    IF x.e - y.e > Prec + 1 THEN x
    ELSE RoundInt(x.m * 2^(x.e - y.e) + y.m, y.e)

AddValues(x, y) ==
    IF x.nan \/ y.nan THEN FNaN
    ELSE IF x.m = 0 THEN y
    ELSE IF y.m = 0 THEN x
    ELSE IF x.e >= y.e THEN AddAligned(x, y) ELSE AddAligned(y, x)

\* float addition of two expressions, each evaluated once
FAdd(a, b) == Only({AddValues(x, y) : x \in {a}, y \in {b}})

FNeg(x) == [x EXCEPT !.m = -x.m]

FSub(a, b) == Only({AddValues(x, FNeg(y)) : x \in {a}, y \in {b}})

MulValues(x, y) == IF x.nan \/ y.nan THEN FNaN ELSE RoundInt(x.m * y.m, x.e + y.e)

FMul(a, b) == Only({MulValues(x, y) : x \in {a}, y \in {b}})

FFromInt(n) == RoundInt(n, 0)

\* x / d for a positive integer d: the quotient is taken with enough bits
\* and a last bit that records a non-zero remainder, then rounded
DivValue(x, d) ==
    IF x.nan \/ d = 0 THEN FNaN
    ELSE IF x.m = 0 THEN x
    ELSE LET s == IF x.m > 0 THEN 1 ELSE -1
             sh == Prec + 2 + BitLen(d)
             a == Abs(x.m) * 2^sh
             sticky == IF a % d = 0 THEN 0 ELSE 1
         IN  RoundInt(s * (2 * (a \div d) + sticky), x.e - sh - 1)

FDivInt(a, d) == Only({DivValue(x, d) : x \in {a}})

\* the float a decimal literal n/d denotes
FromDecimal(n, d) == FDivInt(FFromInt(n), d)

\* floor(sqrt(n)) by halving
RECURSIVE ISqrtBin(_)
ISqrtBin(n) ==
    IF n < 2 THEN n
    ELSE Only({IF (s + 1) * (s + 1) <= n THEN s + 1 ELSE s :
                 s \in {2 * ISqrtBin(n \div 4)}})

\* sqrt(mm * 2^ee) for a positive mm and an even ee
SqrtEven(mm, ee) ==
    LET k == (Prec + 4) \div 2
        n == mm * 4^k
    IN  Only({RoundInt(2 * q + (IF q * q = n THEN 0 ELSE 1), (ee \div 2) - k - 1) :
                q \in {ISqrtBin(n)}})

SqrtValue(x) ==
    IF x.nan \/ x.m < 0 THEN FNaN
    ELSE IF x.m = 0 THEN x
    ELSE IF x.e % 2 = 0 THEN SqrtEven(x.m, x.e) ELSE SqrtEven(2 * x.m, x.e - 1)

FSqrt(a) == Only({SqrtValue(x) : x \in {a}})

\* np.sum of a 1-D array of fewer than 8 floats: left to right
RECURSIVE FSum(_)
FSum(s) ==
    IF s = <<>> THEN FZero
    ELSE FAdd(FSum(SubSeq(s, 1, Len(s) - 1)), s[Len(s)])

\* np.mean of a 1-D array: nan for the empty array
FMean(s) == IF s = <<>> THEN FNaN ELSE FDivInt(FSum(s), Len(s))

\* the exact real a float stands for
ToReal(x) ==
    IF x.nan THEN NaN
    ELSE IF x.e >= 0 THEN FromInt(x.m * 2^x.e)
    ELSE Rat(x.m, 2^(-x.e))

\* the measurements a float values array is drawn from: 0.1 and 0.7
FloatValues == {FromDecimal(1, 10), FromDecimal(7, 10)}

\* the variant of FloatThetaBar that takes the first leave-one-out mean
FloatThetaBar_First(theta_k) == theta_k[1]

\* line 161: theta_bar = float(np.mean(theta_k))
FloatThetaBar(theta_k) == FMean(theta_k)

\* line 162: (theta_k - theta_bar) ** 2, elementwise
FloatSqDevs(theta_k, theta_bar) ==
    [j \in 1..Len(theta_k) |->
        Only({FMul(d, d) : d \in {FSub(theta_k[j], theta_bar)}})]

\* line 162: (R - 1) / R * np.sum((theta_k - theta_bar) ** 2)
FloatVariance(theta_k, theta_bar, R) ==
    FMul(FDivInt(FFromInt(R - 1), R), FSum(FloatSqDevs(theta_k, theta_bar)))

\* lines 161-170 in floating point
FloatStats(theta_full, theta_bar, variance) ==
    [theta_full |-> theta_full,
     theta_jackknife |-> theta_bar,
     variance |-> variance,
     stderr |-> FSqrt(variance)]

JkFloatInit ==
    /\ fn = "compute_jackknife_mean"
    /\ pc = "entry"
    /\ \E n \in 0..MaxN, n_regions \in 1..MaxR :
         \E values \in [1..n -> FloatValues],
            region_ids \in [1..n -> 0..(MaxR - 1)] \cup {<<>>} :
           jk = [values |-> values,
                 assignment |-> [region_ids |-> region_ids, n_regions |-> n_regions],
                 theta_full |-> None,
                 theta_k |-> <<>>,
                 k |-> 0]
    /\ grid = IdleFrame /\ seg = IdleFrame /\ poly = IdleFrame
    /\ ret = None
    /\ error = ""
    /\ call = IdleFrame /\ heap = <<>> /\ fil = IdleFrame

\* lines 141-154 in floating point
JkFloatEntry ==
    /\ fn = "compute_jackknife_mean" /\ pc = "entry"
    /\ IF Len(jk.assignment.region_ids) # Len(jk.values)
       THEN Raise("values and region_ids must have the same length") /\ UNCHANGED jk
       ELSE IF TooFewRegions(jk.assignment.n_regions)
       THEN Raise("at least two jackknife regions are required") /\ UNCHANGED jk
       ELSE /\ jk' = [jk EXCEPT !.theta_full = FMean(jk.values), !.theta_k = <<>>, !.k = 0]
            /\ pc' = "loop"
            /\ UNCHANGED <<ret, error>>
    /\ UNCHANGED <<fn, grid, seg, poly>>
    /\ UNCHANGED session

\* lines 155-159 in floating point
JkFloatLoop ==
    /\ fn = "compute_jackknife_mean" /\ pc = "loop"
    /\ jk.k < jk.assignment.n_regions
    /\ IF ~AnyMask(jk.assignment.region_ids, jk.k)
       THEN Raise("region k is empty; cannot form jackknife sample") /\ UNCHANGED jk
       ELSE /\ jk' = [jk EXCEPT
                        !.theta_k = Append(@, FMean(MaskedValues(jk.values,
                                                    jk.assignment.region_ids, jk.k))),
                        !.k = @ + 1]
            /\ UNCHANGED <<pc, ret, error>>
    /\ UNCHANGED <<fn, grid, seg, poly>>
    /\ UNCHANGED session

\* lines 161-170 in floating point
JkFloatReturn ==
    /\ fn = "compute_jackknife_mean" /\ pc = "loop"
    /\ jk.k = jk.assignment.n_regions
    /\ \E theta_bar \in {FloatThetaBar(jk.theta_k)} :
         \E variance \in {FloatVariance(jk.theta_k, theta_bar, jk.assignment.n_regions)} :
           ret' = FloatStats(jk.theta_full, theta_bar, variance)
    /\ pc' = "returned"
    /\ UNCHANGED <<fn, jk, grid, seg, poly, error>>
    /\ UNCHANGED session

JkFloatNext == JkFloatEntry \/ JkFloatLoop \/ JkFloatReturn

SpecJackknifeFloat == JkFloatInit /\ [][JkFloatNext]_vars

(***************************************************************************)
(* Properties of compute_jackknife_mean in floating point.                 *)
(***************************************************************************)
\* the values as exact reals, and exact sums and means over sets of indices
ExactValue(j) == ToReal(jk.values[j])

RECURSIVE ExactSum(_)
ExactSum(S) ==
    IF S = {} THEN Zero
    ELSE LET j == CHOOSE x \in S : TRUE
         IN  Add(ExactValue(j), ExactSum(S \ {j}))

ExactMean(S) == Div(ExactSum(S), FromInt(Cardinality(S)))
ExactLeaveOneOut(k) == ExactMean(LeftOut(k))

AbsReal(x) == IF x.num < 0 THEN Neg(x) ELSE x

\* the largest |value|
MaxAbsValue ==
    CHOOSE b \in {AbsReal(ExactValue(j)) : j \in 1..Len(jk.values)} :
        \A j \in 1..Len(jk.values) : Le(AbsReal(ExactValue(j)), b)

\* R >= 2 regions with ids in [0, R-1] that all hold the same positive
\* number of points
EqualSizedRegions == ValidPartition /\ EqualRegionSizes

====
